---- MODULE Spec2Model ----
(***************************************************************************)
(* astro-click-to-source: the browser-side source-location cache and       *)
(* resolver (client.ts), its interaction handlers, and the dev-server      *)
(* /__open-in-editor middleware (vite-plugin.ts).                          *)
(*                                                                         *)
(* JavaScript strings are sequences of one-character strings, so that      *)
(* indexOf, split, slice, startsWith and toLowerCase are computed as the   *)
(* code computes them.  null/undefined is the one-element sequence NULL,   *)
(* which no string operation produces.                                     *)
(***************************************************************************)
EXTENDS Integers, Sequences, FiniteSets, TLC

\* ------------------------------------------------------------------------
\* Bounds of the model
\* ------------------------------------------------------------------------
MaxEl == 3          \* element instances the renderer creates in one session
MaxPageEl == 2      \* the same, in the specification that also runs the handlers
MaxInits == 2       \* executions of the injected script in one session
MaxInFlight == 1    \* outbound actions (fetch, clipboard write) in flight
MaxSegments == 5    \* '/'-separated segments of a source-file path

\* ------------------------------------------------------------------------
\* JavaScript string primitives
\* ------------------------------------------------------------------------
NULL == <<"null">>

Truthy(s) == s # NULL /\ s # <<>>

UpperCase == <<"A","B","C","D","E","F","G","H","I","J","K","L","M",
               "N","O","P","Q","R","S","T","U","V","W","X","Y","Z">>

LowerCase == <<"a","b","c","d","e","f","g","h","i","j","k","l","m",
               "n","o","p","q","r","s","t","u","v","w","x","y","z">>

ToLowerChar(c) ==
    IF \E i \in 1..Len(UpperCase) : UpperCase[i] = c
    THEN LowerCase[CHOOSE i \in 1..Len(UpperCase) : UpperCase[i] = c]
    ELSE c

ToLowerCase(s) == [i \in 1..Len(s) |-> ToLowerChar(s[i])]

\* s.startsWith(p)
StartsWith(s, p) == Len(p) <= Len(s) /\ SubSeq(s, 1, Len(p)) = p

\* s.indexOf(p): 0-based index of the first occurrence, -1 when there is none
RECURSIVE IndexFrom(_, _, _)
IndexFrom(s, p, i) ==
    IF i + Len(p) > Len(s) THEN -1
    ELSE IF SubSeq(s, i + 1, i + Len(p)) = p THEN i
    ELSE IndexFrom(s, p, i + 1)

IndexOf(s, p) == IndexFrom(s, p, 0)

\* s.slice(n) for n >= 0
Slice(s, n) == SubSeq(s, n + 1, Len(s))

\* a.slice(-n) on an array
SliceLast(a, n) == IF Len(a) <= n THEN a ELSE SubSeq(a, Len(a) - n + 1, Len(a))

\* a.slice(0, n) on an array
SliceFirst(a, n) == IF Len(a) <= n THEN a ELSE SubSeq(a, 1, n)

\* s.split(sep) for a non-empty separator
RECURSIVE Split(_, _)
Split(s, sep) ==
    LET i == IndexOf(s, sep)
    IN  IF i = -1 THEN <<s>>
        ELSE <<SubSeq(s, 1, i)>> \o Split(Slice(s, i + Len(sep)), sep)

\* a.join(sep)
RECURSIVE Join(_, _)
Join(a, sep) ==
    IF Len(a) = 0 THEN <<>>
    ELSE IF Len(a) = 1 THEN a[1]
    ELSE a[1] \o sep \o Join(Tail(a), sep)

\* DOMTokenList (el.classList) on a class attribute value.  Its token set is
\* the attribute value split on ASCII whitespace, without duplicates; add and
\* remove change the set and write it back joined by single spaces.
AsciiWhitespace == {"\t", "\n", "\f", "\r", " "}

SpacesOnly(cn) ==
    [i \in 1..Len(cn) |-> IF cn[i] \in AsciiWhitespace THEN " " ELSE cn[i]]

RECURSIVE OrderedSet(_)
OrderedSet(a) ==
    IF Len(a) = 0 THEN <<>>
    ELSE LET init == OrderedSet(SubSeq(a, 1, Len(a) - 1))
             last == a[Len(a)]
         IN  IF \E i \in 1..Len(init) : init[i] = last
             THEN init ELSE Append(init, last)

ClassTokens(cn) ==
    OrderedSet(SelectSeq(Split(SpacesOnly(cn), <<" ">>), LAMBDA t : t # <<>>))

ClassListAdd(cn, tok) ==
    Join(OrderedSet(Append(ClassTokens(cn), tok)), <<" ">>)

ClassListRemove(cn, tok) ==
    Join(SelectSeq(ClassTokens(cn), LAMBDA t : t # tok), <<" ">>)

\* ------------------------------------------------------------------------
\* The page: nodes, attributes, document order
\* ------------------------------------------------------------------------
NoNode == -2             \* null (parentElement of a detached subtree's root)
DocumentElement == -1    \* document.documentElement
Body == 0                \* document.body
El == 1..MaxEl           \* identities of the elements the renderer creates
Nodes == {Body} \cup El

\* attribute values the renderer writes
FileA == <<"/","w","/","s","r","c","/","a">>
FileB == <<"/","b","/","c","/","d","/","e">>
LocA == <<"3",":","7">>

AttrChoices ==
    { [file |-> NULL,  loc |-> NULL],
      [file |-> FileA, loc |-> LocA],
      [file |-> FileB, loc |-> NULL] }

\* tag name, id and class attribute of a rendered element.  An HTML element
\* reports its tagName in upper case, an SVG element as written.
ShapeChoices ==
    { [tagName |-> <<"A">>, id |-> <<>>,    className |-> <<>>],
      [tagName |-> <<"a">>, id |-> <<>>,    className |-> <<>>],
      [tagName |-> <<"A">>, id |-> <<"x">>, className |-> <<"c">>] }

UnusedNode ==
    [used |-> FALSE, parent |-> NoNode, tagName |-> <<>>, id |-> <<>>,
     className |-> <<>>, file |-> NULL, loc |-> NULL]

BodyNode ==
    [used |-> TRUE, parent |-> DocumentElement,
     tagName |-> <<"B","O","D","Y">>, id |-> <<>>,
     className |-> <<>>, file |-> NULL, loc |-> NULL]

VARIABLES
    dom,              \* Nodes -> node record: the elements and their attributes
    sourceMapCache,   \* window.__sourceMapCache: element -> {file, loc}
    sourceMapByPath   \* window.__sourceMapByPath: path -> {file, loc, tagName}

\* el.parentElement
ParentElement(d, n) == IF n \in Nodes THEN d[n].parent ELSE NoNode

\* n is connected to the document
RECURSIVE InDocument(_, _)
InDocument(d, n) ==
    IF n = DocumentElement THEN TRUE
    ELSE IF n = NoNode THEN FALSE
    ELSE d[n].used /\ InDocument(d, d[n].parent)

\* n is an inclusive descendant of a
RECURSIVE IsWithin(_, _, _)
IsWithin(d, n, a) ==
    IF n = a THEN TRUE
    ELSE IF n \notin Nodes THEN FALSE
    ELSE IsWithin(d, d[n].parent, a)

ChildrenOf(d, n) == { e \in El : d[e].used /\ d[e].parent = n }

Min(S) == CHOOSE m \in S : \A k \in S : m <= k

\* tree order; siblings stand in the order in which they were inserted
RECURSIVE Preorder(_, _), PreorderAll(_, _)
Preorder(d, n) == <<n>> \o PreorderAll(d, ChildrenOf(d, n))
PreorderAll(d, S) ==
    IF S = {} THEN <<>>
    ELSE Preorder(d, Min(S)) \o PreorderAll(d, S \ {Min(S)})

\* document.querySelectorAll('[data-astro-source-file]')
QuerySourceElements(d) ==
    SelectSeq(Preorder(d, Body), LAMBDA n : d[n].file # NULL)

\* ------------------------------------------------------------------------
\* getElementPath
\* ------------------------------------------------------------------------
OwnClassPrefix ==
    <<"c","l","i","c","k","-","t","o","-","s","o","u","r","c","e">>

PathClasses(cn) ==
    SliceFirst(SelectSeq(Split(cn, <<" ">>),
                         LAMBDA c : Truthy(c) /\ ~StartsWith(c, OwnClassPrefix)),
               2)

Selector(node) ==
    ToLowerCase(node.tagName) \o
    ( IF Truthy(node.id) THEN <<"#">> \o node.id
      ELSE IF Truthy(node.className) /\ Len(PathClasses(node.className)) > 0
           THEN <<".">> \o Join(PathClasses(node.className), <<".">>)
           ELSE <<>> )

RECURSIVE PathParts(_, _)
PathParts(d, current) ==
    IF current = NoNode \/ current = DocumentElement THEN <<>>
    ELSE PathParts(d, d[current].parent) \o <<Selector(d[current])>>

getElementPath(d, el) == Join(PathParts(d, el), <<" ", ">", " ">>)

\* ------------------------------------------------------------------------
\* cacheSourceMappings
\* ------------------------------------------------------------------------
MapSet(m, k, v) == [x \in DOMAIN m \cup {k} |-> IF x = k THEN v ELSE m[x]]

\* a forEach callback that keeps the path entry that is already there
CacheOneFirstWins(d, c, el) ==
    IF el \in DOMAIN c.cache THEN c
    ELSE [cache  |-> MapSet(c.cache, el,
                            [file |-> d[el].file, loc |-> d[el].loc]),
          byPath |-> IF getElementPath(d, el) \in DOMAIN c.byPath
                     THEN c.byPath
                     ELSE MapSet(c.byPath, getElementPath(d, el),
                                 [file |-> d[el].file, loc |-> d[el].loc,
                                  tagName |-> d[el].tagName])]

\* the body of the forEach callback for one element
\* a snapshot that writes every element it meets, indexed already or not
CacheOneRefreshes(d, c, el) ==
    [cache  |-> MapSet(c.cache, el,
                       [file |-> d[el].file, loc |-> d[el].loc]),
     byPath |-> MapSet(c.byPath, getElementPath(d, el),
                       [file |-> d[el].file, loc |-> d[el].loc,
                        tagName |-> d[el].tagName])]

CacheOne(d, c, el) ==
    IF el \in DOMAIN c.cache THEN c
    ELSE [cache  |-> MapSet(c.cache, el,
                            [file |-> d[el].file, loc |-> d[el].loc]),
          byPath |-> MapSet(c.byPath, getElementPath(d, el),
                            [file |-> d[el].file, loc |-> d[el].loc,
                             tagName |-> d[el].tagName])]

\* a loop that returns after the first element it has not seen before
RECURSIVE CacheEachFirstOnly(_, _, _)
CacheEachFirstOnly(d, c, els) ==
    IF Len(els) = 0 THEN c
    ELSE IF Head(els) \in DOMAIN c.cache
         THEN CacheEachFirstOnly(d, c, Tail(els))
    ELSE CacheOne(d, c, Head(els))

RECURSIVE CacheEach(_, _, _)
CacheEach(d, c, els) ==
    IF Len(els) = 0 THEN c
    ELSE CacheEach(d, CacheOne(d, c, Head(els)), Tail(els))

cacheSourceMappings(d, cache, byPath) ==
    CacheEach(d, [cache |-> cache, byPath |-> byPath], QuerySourceElements(d))

\* ------------------------------------------------------------------------
\* findSourceElement
\* ------------------------------------------------------------------------
NotFound == [found |-> FALSE, element |-> NoNode, file |-> NULL, loc |-> NULL]

Found(el, file, loc) ==
    [found |-> TRUE, element |-> el, file |-> file, loc |-> loc]

\* a path lookup that compares the stored tag name with the lower-cased one
PathHitLowerCase(d, byPath, current) ==
    /\ getElementPath(d, current) \in DOMAIN byPath
    /\ byPath[getElementPath(d, current)].tagName = ToLowerCase(d[current].tagName)

\* a path lookup that does not compare tag names
PathHitNoGuard(d, byPath, current) ==
    getElementPath(d, current) \in DOMAIN byPath

PathHit(d, byPath, current) ==
    /\ getElementPath(d, current) \in DOMAIN byPath
    /\ byPath[getElementPath(d, current)].tagName = d[current].tagName

\* a resolver that never reads the attributes of the element it visits
RECURSIVE findSourceElementNoLive(_, _, _, _)
findSourceElementNoLive(d, cache, byPath, current) ==
    IF current = NoNode \/ current = DocumentElement THEN NotFound
    ELSE IF current \in DOMAIN cache
         THEN Found(current, cache[current].file, cache[current].loc)
    ELSE IF PathHit(d, byPath, current)
         THEN Found(current, byPath[getElementPath(d, current)].file,
                             byPath[getElementPath(d, current)].loc)
    ELSE findSourceElementNoLive(d, cache, byPath, d[current].parent)

RECURSIVE findSourceElement(_, _, _, _)
findSourceElement(d, cache, byPath, current) ==
    IF current = NoNode \/ current = DocumentElement THEN NotFound
    ELSE IF current \in DOMAIN cache
         THEN Found(current, cache[current].file, cache[current].loc)
    ELSE IF d[current].file # NULL
         THEN Found(current, d[current].file, d[current].loc)
    ELSE IF PathHit(d, byPath, current)
         THEN Found(current, byPath[getElementPath(d, current)].file,
                             byPath[getElementPath(d, current)].loc)
    ELSE findSourceElement(d, cache, byPath, d[current].parent)

\* ------------------------------------------------------------------------
\* Configuration: index.ts (clickToSource) and getClientScript
\* ------------------------------------------------------------------------
ModifierKeys == {"alt", "ctrl", "meta", "shift"}

modifierKeyMap ==
    [alt |-> "altKey", ctrl |-> "ctrlKey", meta |-> "metaKey", shift |-> "shiftKey"]

\* a || b on option strings; "" stands for an option that is not given
OrDefault(a, b) == IF a = "" THEN b ELSE a

\* getClientScript(options): the three constants baked into the script
getClientScript(options) ==
    [modifier      |-> OrDefault(options.modifier, "alt"),
     showHighlight |-> options.showHighlight # FALSE,
     action        |-> OrDefault(options.action, "editor")]

\* clickToSource(options) with process.env.CLICK_TO_SOURCE = env
clickToSource(options, env) ==
    getClientScript(
        [modifier      |-> OrDefault(options.modifier, "alt"),
         showHighlight |-> options.showHighlight,
         action        |-> IF OrDefault(env, "code") = "clipboard"
                           THEN "clipboard" ELSE "editor"])

OptionChoices ==
    [modifier : {"", "ctrl"}, showHighlight : BOOLEAN]

EnvChoices == {"", "clipboard", "nvim"}

\* ------------------------------------------------------------------------
\* State of one page session
\* ------------------------------------------------------------------------
VARIABLES
    config,              \* modifier, showHighlight, action baked into the script
    inits,               \* how many times the script has run; the live instance
    listeners,           \* event type -> instances whose handler is registered
    cleanup,             \* window.__clickToSourceCleanup: its instance, 0 if unset
    isModifierHeld,
    highlightedElement,
    lastMouseTarget,     \* lastMouseTarget.target, NoNode when null
    styleNodes,          \* instances whose <style> is in document.head
    tooltipNodes,        \* instances whose tooltip <div> is in document.body
    tooltip,             \* the live instance's tooltipElement and its two spans
    outbox,              \* fetches and clipboard writes that have not settled
    clipboard,           \* the system clipboard
    feedback,            \* texts of the 'Copied: ...' notes now on the page
    copyAnimationStyle,  \* <style id="click-to-source-copy-animation"> is in head
    event,               \* the last step's event: what its handlers did, and
                         \* whether a settling promise ended in console.error
    served               \* the dev server: the last request and what the
                         \* middleware did with it

EventTypes == {"keydown", "keyup", "blur", "mousemove", "click"}

HighlightClass == OwnClassPrefix \o <<"-","h","i","g","h","l","i","g","h","t">>
ActiveClass == OwnClassPrefix \o <<"-","a","c","t","i","v","e">>

NoTooltip == [exists |-> FALSE, visible |-> FALSE, file |-> <<>>, loc |-> <<>>]
NewTooltip == [exists |-> TRUE, visible |-> FALSE, file |-> <<>>, loc |-> <<>>]

NoKeys == [altKey |-> FALSE, ctrlKey |-> FALSE, metaKey |-> FALSE, shiftKey |-> FALSE]

NoEvent ==
    [type |-> "none", target |-> NoNode, keys |-> NoKeys, handlers |-> 0,
     resolved |-> 0, defaultPrevented |-> FALSE, propagationStopped |-> FALSE,
     dispatched |-> <<>>, logged |-> FALSE]

KeyFlags == [altKey : BOOLEAN, ctrlKey : BOOLEAN, metaKey : {FALSE}, shiftKey : {FALSE}]

\* e[modifierKey]
ModifierFlag(e) == e[modifierKeyMap[config.modifier]]

\* ------------------------------------------------------------------------
\* Display-path normalization, tooltip and highlight
\* ------------------------------------------------------------------------
SrcMarker == <<"/","s","r","c","/">>

\* a normalization that keeps the slash in front of 'src/'
displayPathKeepSlash(file) ==
    IF IndexOf(file, SrcMarker) # -1
    THEN Slice(file, IndexOf(file, SrcMarker))
    ELSE Join(SliceLast(Split(file, <<"/">>), 3), <<"/">>)

\* updateTooltip, lines 189-190
displayPath(file) ==
    IF IndexOf(file, SrcMarker) # -1
    THEN Slice(file, IndexOf(file, SrcMarker) + 1)
    ELSE Join(SliceLast(Split(file, <<"/">>), 3), <<"/">>)

\* copyToClipboard, lines 302-303
relativePath(file) ==
    IF IndexOf(file, SrcMarker) # -1
    THEN Slice(file, IndexOf(file, SrcMarker) + 1)
    ELSE Join(SliceLast(Split(file, <<"/">>), 3), <<"/">>)

\* The helpers below thread u = [dom, hl, tip]: the page's nodes, the
\* closure's highlightedElement and its tooltip.
removeHighlight(u) ==
    [dom |-> IF u.hl # NoNode
             THEN [u.dom EXCEPT ![u.hl].className = ClassListRemove(@, HighlightClass)]
             ELSE u.dom,
     hl  |-> NoNode,
     tip |-> IF u.tip.exists THEN [u.tip EXCEPT !.visible = FALSE] ELSE u.tip]

updateTooltip(u, file, loc) ==
    IF ~u.tip.exists THEN u
    ELSE [u EXCEPT !.tip = [exists  |-> TRUE,
                            visible |-> TRUE,
                            file    |-> displayPath(file),
                            loc     |-> IF Truthy(loc) THEN <<":">> \o loc ELSE <<>>]]

Highlight(u, result) ==
    [dom |-> [removeHighlight(u).dom EXCEPT
                 ![result.element].className = ClassListAdd(@, HighlightClass)],
     hl  |-> result.element,
     tip |-> removeHighlight(u).tip]

updateHighlight(u, target) ==
    LET result == findSourceElement(u.dom, sourceMapCache, sourceMapByPath, target)
    IN  IF ~config.showHighlight THEN u
        ELSE IF result.found /\ result.element # u.hl
             THEN updateTooltip(Highlight(u, result), result.file, result.loc)
        ELSE IF result.found /\ result.element = u.hl
             THEN updateTooltip(u, result.file, result.loc)
        ELSE IF ~result.found /\ u.hl # NoNode
             THEN removeHighlight(u)
        ELSE u

BodyClassAdd(d, tok) == [d EXCEPT ![Body].className = ClassListAdd(@, tok)]
BodyClassRemove(d, tok) == [d EXCEPT ![Body].className = ClassListRemove(@, tok)]

Page == [dom |-> dom, hl |-> highlightedElement, tip |-> tooltip]

\* ------------------------------------------------------------------------
\* Garbage collection: a detached node that neither the document nor the
\* closure (highlightedElement, lastMouseTarget) can reach is gone, and with
\* it its WeakMap entry.
\* ------------------------------------------------------------------------
GoneNode == [UnusedNode EXCEPT !.used = TRUE]

Reachable(d, refs, n) ==
    \/ n = Body
    \/ ~d[n].used
    \/ InDocument(d, n)
    \/ \E r \in refs \cap Nodes : IsWithin(d, r, n)

Collect(d, refs) ==
    [n \in Nodes |-> IF Reachable(d, refs, n) THEN d[n] ELSE GoneNode]

CollectCache(d, refs, cache) ==
    [n \in { m \in DOMAIN cache : Reachable(d, refs, m) } |-> cache[n]]

\* ------------------------------------------------------------------------
\* Outbound actions
\* ------------------------------------------------------------------------
EndpointPath ==
    <<"/","_","_","o","p","e","n","-","i","n","-","e","d","i","t","o","r">>

\* application/x-www-form-urlencoded serialisation of one character, for the
\* characters that occur in the model's files and locations
UrlEncodeChar(c) ==
    CASE c = "/" -> <<"%","2","F">>
      [] c = ":" -> <<"%","3","A">>
      [] c = " " -> <<"+">>
      [] OTHER   -> <<c>>

RECURSIVE UrlEncode(_)
UrlEncode(str) ==
    IF Len(str) = 0 THEN <<>>
    ELSE UrlEncodeChar(Head(str)) \o UrlEncode(Tail(str))

\* URLSearchParams.toString() of a list of <<name, value>> pairs
ParamsToString(params) ==
    Join([i \in 1..Len(params) |->
              UrlEncode(params[i][1]) \o <<"=">> \o UrlEncode(params[i][2])],
         <<"&">>)

EditorParams(file, loc) ==
    <<  <<<<"f","i","l","e">>, file>>  >>
    \o ( IF Truthy(loc) /\ Truthy(Split(loc, <<":">>)[1])
         THEN << <<<<"l","i","n","e">>, Split(loc, <<":">>)[1]>> >>
         ELSE <<>> )
    \o ( IF Truthy(loc) /\ Len(Split(loc, <<":">>)) >= 2
            /\ Truthy(Split(loc, <<":">>)[2])
         THEN << <<<<"c","o","l","u","m","n">>, Split(loc, <<":">>)[2]>> >>
         ELSE <<>> )

\* a request that carries the path as the tooltip shows it
openInEditorDisplayPath(file, loc) ==
    [kind |-> "fetch",
     data |-> EndpointPath \o <<"?">>
              \o ParamsToString(EditorParams(displayPath(file), loc))]

\* openInEditor up to its await: the request it sends
openInEditor(file, loc) ==
    [kind |-> "fetch",
     data |-> EndpointPath \o <<"?">> \o ParamsToString(EditorParams(file, loc))]

\* a clipboard text made of the file as it was resolved
copyToClipboardAbsolute(file, loc) ==
    [kind |-> "clipboard",
     data |-> file \o (IF Truthy(loc) THEN <<":">> \o loc ELSE <<>>)]

\* copyToClipboard up to its await: the text it asks the clipboard to take
copyToClipboard(file, loc) ==
    [kind |-> "clipboard",
     data |-> relativePath(file) \o (IF Truthy(loc) THEN <<":">> \o loc ELSE <<>>)]

\* ------------------------------------------------------------------------
\* The dev server middleware (vite-plugin.ts)
\* ------------------------------------------------------------------------
\* percent-decoding of the escapes UrlEncodeChar writes, and '+' for a space
RECURSIVE UrlDecode(_)
UrlDecode(str) ==
    IF Len(str) = 0 THEN <<>>
    ELSE IF Head(str) = "+" THEN <<" ">> \o UrlDecode(Tail(str))
    ELSE IF Len(str) >= 3 /\ SubSeq(str, 1, 3) = <<"%","2","F">>
         THEN <<"/">> \o UrlDecode(SubSeq(str, 4, Len(str)))
    ELSE IF Len(str) >= 3 /\ SubSeq(str, 1, 3) = <<"%","3","A">>
         THEN <<":">> \o UrlDecode(SubSeq(str, 4, Len(str)))
    ELSE <<Head(str)>> \o UrlDecode(Tail(str))

\* new URL(url, "http://localhost"): the url without its fragment, its
\* pathname and its query string
NoFragment(url) ==
    IF IndexOf(url, <<"#">>) = -1 THEN url ELSE SubSeq(url, 1, IndexOf(url, <<"#">>))

Pathname(url) ==
    IF IndexOf(NoFragment(url), <<"?">>) = -1 THEN NoFragment(url)
    ELSE SubSeq(NoFragment(url), 1, IndexOf(NoFragment(url), <<"?">>))

Search(url) ==
    IF IndexOf(NoFragment(url), <<"?">>) = -1 THEN <<>>
    ELSE Slice(NoFragment(url), IndexOf(NoFragment(url), <<"?">>) + 1)

\* the name and the value of one name=value piece of a query string
PairName(piece) ==
    UrlDecode(IF IndexOf(piece, <<"=">>) = -1 THEN piece
              ELSE SubSeq(piece, 1, IndexOf(piece, <<"=">>)))

PairValue(piece) ==
    UrlDecode(IF IndexOf(piece, <<"=">>) = -1 THEN <<>>
              ELSE Slice(piece, IndexOf(piece, <<"=">>) + 1))

\* urlObj.searchParams.get(name): the first value under that name, or null
SearchParamsGet(url, name) ==
    LET pieces == SelectSeq(Split(Search(url), <<"&">>), LAMBDA q : q # <<>>)
        hits   == SelectSeq(pieces, LAMBDA q : PairName(q) = name)
    IN  IF Len(hits) = 0 THEN NULL ELSE PairValue(hits[1])

FileParam == <<"f","i","l","e">>
LineParam == <<"l","i","n","e">>
ColumnParam == <<"c","o","l","u","m","n">>

\* a file spec that appends the column whether or not there is a line
fileSpecColumnAlways(file, line, column) ==
    file \o (IF Truthy(line) THEN <<":">> \o line ELSE <<>>)
         \o (IF Truthy(column) THEN <<":">> \o column ELSE <<>>)

\* lines 42-48
fileSpec(file, line, column) ==
    file \o ( IF Truthy(line)
              THEN <<":">> \o line
                   \o (IF Truthy(column) THEN <<":">> \o column ELSE <<>>)
              ELSE <<>> )

NoBody == [kind |-> "none"]

NotServed ==
    [request |-> [path |-> NULL, file |-> NULL, line |-> NULL, column |-> NULL],
     handled |-> FALSE, next |-> FALSE, statusCode |-> 0, contentType |-> "",
     allowOrigin |-> "", body |-> NoBody, launched |-> <<>>, logged |-> FALSE]

\* the middleware on a request whose req.url is reqUrl (NULL when undefined):
\* what it leaves in the response, whether it calls next, what it launches
middleware(reqUrl) ==
    LET url    == IF reqUrl = NULL THEN <<>> ELSE reqUrl
        file   == SearchParamsGet(url, FileParam)
        line   == SearchParamsGet(url, LineParam)
        column == SearchParamsGet(url, ColumnParam)
    IN  IF ~StartsWith(url, EndpointPath)
        THEN [NotServed EXCEPT !.handled = TRUE, !.next = TRUE]
        ELSE IF ~Truthy(file)
        THEN [NotServed EXCEPT
                 !.handled = TRUE,
                 !.statusCode = 400,
                 !.contentType = "application/json",
                 !.body = [kind |-> "error", error |-> "Missing file parameter"]]
        ELSE [NotServed EXCEPT
                 !.handled = TRUE,
                 !.statusCode = 200,
                 !.contentType = "application/json",
                 !.allowOrigin = "*",
                 !.body = [kind |-> "success", success |-> TRUE,
                           file |-> fileSpec(file, line, column)],
                 !.launched = << fileSpec(file, line, column) >>]

\* the request line a client writes for a path and its three parameters
\* (NULL: the parameter is not sent)
RequestUrl(r) ==
    LET params == (IF r.file = NULL THEN <<>> ELSE << <<FileParam, r.file>> >>)
               \o (IF r.line = NULL THEN <<>> ELSE << <<LineParam, r.line>> >>)
               \o (IF r.column = NULL THEN <<>> ELSE << <<ColumnParam, r.column>> >>)
    IN  IF r.path = NULL THEN NULL
        ELSE IF Len(params) = 0 THEN r.path
        ELSE r.path \o <<"?">> \o ParamsToString(params)

PathChoices ==
    { NULL,
      <<"/">>,
      <<"/","a">>,
      EndpointPath,
      EndpointPath \o <<"-","x">>,
      EndpointPath \o <<"/","x">> }

Requests ==
    [path   : PathChoices,
     file   : {NULL, <<>>, <<"/","a">>, <<"/","a","/","b",".","t","x","t">>},
     line   : {NULL, <<>>, <<"5">>},
     column : {NULL, <<>>, <<"2">>}]

client ==
    <<dom, sourceMapCache, sourceMapByPath, config, inits, listeners, cleanup,
      isModifierHeld, highlightedElement, lastMouseTarget, styleNodes,
      tooltipNodes, tooltip, outbox, clipboard, feedback, copyAnimationStyle,
      event>>

\* a request arrives at the dev server
Request(r) ==
    /\ served' = [middleware(RequestUrl(r)) EXCEPT !.request = r]
    /\ UNCHANGED client

\* launch-editor reports a failure to its callback: console.error
LaunchFailed ==
    /\ served.launched # <<>>
    /\ ~served.logged
    /\ served' = [served EXCEPT !.logged = TRUE]
    /\ UNCHANGED client

\* ------------------------------------------------------------------------
\* Event handlers
\* ------------------------------------------------------------------------
session ==
    <<inits, listeners, cleanup, styleNodes, tooltipNodes>>
async ==
    <<outbox, clipboard, feedback, copyAnimationStyle>>
vars ==
    <<dom, sourceMapCache, sourceMapByPath, config, inits, listeners, cleanup,
      isModifierHeld, highlightedElement, lastMouseTarget, styleNodes,
      tooltipNodes, tooltip, outbox, clipboard, feedback, copyAnimationStyle,
      event, served>>

\* what an event can be aimed at
Targets == {DocumentElement, Body} \cup { e \in El : InDocument(dom, e) }

\* the page and closure after a handler: u, the new lastMouseTarget, then
\* garbage collection
Settle(u, lmt) ==
    /\ dom' = Collect(u.dom, {u.hl, lmt})
    /\ sourceMapCache' = CollectCache(u.dom, {u.hl, lmt}, sourceMapCache)
    /\ highlightedElement' = u.hl
    /\ tooltip' = u.tip
    /\ lastMouseTarget' = lmt

handleKeydown(e) ==
    /\ listeners["keydown"] # {}
    /\ IF ModifierFlag(e) /\ ~isModifierHeld
       THEN /\ isModifierHeld' = TRUE
            /\ IF config.showHighlight
               THEN LET u == [Page EXCEPT !.dom = BodyClassAdd(dom, ActiveClass)]
                    IN  IF lastMouseTarget # NoNode
                        THEN Settle(updateHighlight(u, lastMouseTarget), lastMouseTarget)
                        ELSE Settle(u, lastMouseTarget)
               ELSE Settle(Page, lastMouseTarget)
       ELSE /\ isModifierHeld' = isModifierHeld
            /\ Settle(Page, lastMouseTarget)
    /\ event' = NoEvent
    /\ UNCHANGED <<sourceMapByPath, config, served, session, async>>

\* a key-up handler that leaves the highlight and the tooltip in place
handleKeyupKeepsHighlight(e) ==
    /\ listeners["keyup"] # {}
    /\ IF ~ModifierFlag(e) /\ isModifierHeld
       THEN /\ isModifierHeld' = FALSE
            /\ Settle([Page EXCEPT !.dom = BodyClassRemove(dom, ActiveClass)],
                      lastMouseTarget)
       ELSE /\ isModifierHeld' = isModifierHeld
            /\ Settle(Page, lastMouseTarget)
    /\ event' = NoEvent
    /\ UNCHANGED <<sourceMapByPath, config, served, session, async>>

handleKeyup(e) ==
    /\ listeners["keyup"] # {}
    /\ IF ~ModifierFlag(e) /\ isModifierHeld
       THEN /\ isModifierHeld' = FALSE
            /\ Settle(removeHighlight(
                   [Page EXCEPT !.dom = BodyClassRemove(dom, ActiveClass)]),
                   lastMouseTarget)
       ELSE /\ isModifierHeld' = isModifierHeld
            /\ Settle(Page, lastMouseTarget)
    /\ event' = NoEvent
    /\ UNCHANGED <<sourceMapByPath, config, served, session, async>>

\* a blur handler that keeps the last pointer position
handleBlurKeepsPointer ==
    /\ listeners["blur"] # {}
    /\ isModifierHeld' = FALSE
    /\ Settle(removeHighlight(
           [Page EXCEPT !.dom = BodyClassRemove(dom, ActiveClass)]),
           lastMouseTarget)
    /\ event' = [NoEvent EXCEPT !.type = "blur"]
    /\ UNCHANGED <<sourceMapByPath, config, served, session, async>>

handleBlur ==
    /\ listeners["blur"] # {}
    /\ isModifierHeld' = FALSE
    /\ Settle(removeHighlight(
           [Page EXCEPT !.dom = BodyClassRemove(dom, ActiveClass)]), NoNode)
    /\ event' = [NoEvent EXCEPT !.type = "blur"]
    /\ UNCHANGED <<sourceMapByPath, config, served, session, async>>

\* a pointer handler whose resolver stores what it finds in the identity index
handleMousemoveIndexes(target) ==
    /\ listeners["mousemove"] # {}
    /\ target \in Targets
    /\ LET u == IF isModifierHeld THEN updateHighlight(Page, target) ELSE Page
           r == findSourceElement(dom, sourceMapCache, sourceMapByPath, target)
           c == IF isModifierHeld /\ r.found
                THEN MapSet(sourceMapCache, r.element,
                            [file |-> r.file, loc |-> r.loc])
                ELSE sourceMapCache
       IN  /\ dom' = Collect(u.dom, {u.hl, target})
           /\ sourceMapCache' = CollectCache(u.dom, {u.hl, target}, c)
           /\ highlightedElement' = u.hl
           /\ tooltip' = u.tip
           /\ lastMouseTarget' = target
    /\ event' = [NoEvent EXCEPT !.type = "mousemove", !.target = target]
    /\ UNCHANGED <<isModifierHeld, sourceMapByPath, config, served, session, async>>

handleMousemove(target) ==
    /\ listeners["mousemove"] # {}
    /\ target \in Targets
    /\ IF isModifierHeld
       THEN Settle(updateHighlight(Page, target), target)
       ELSE Settle(Page, target)
    /\ event' = [NoEvent EXCEPT !.type = "mousemove", !.target = target]
    /\ UNCHANGED <<isModifierHeld, sourceMapByPath, config, served, session, async>>

\* a click handler that suppresses the default action of every modifier
\* click, resolved or not
handleClickSuppressesAll(ev) ==
    LET result == findSourceElement(dom, sourceMapCache, sourceMapByPath, ev.target)
    IN  IF ~ModifierFlag(ev.keys) THEN [ev EXCEPT !.handlers = @ + 1]
        ELSE [ev EXCEPT
                !.handlers = @ + 1,
                !.resolved = @ + 1,
                !.defaultPrevented = TRUE,
                !.propagationStopped = TRUE,
                !.dispatched = @ \o
                    (IF ~result.found THEN <<>>
                     ELSE << IF config.action = "clipboard"
                             THEN copyToClipboard(result.file, result.loc)
                             ELSE openInEditor(result.file, result.loc) >>)]

\* one registered click handler acting on the event ev
handleClick(ev) ==
    LET result == findSourceElement(dom, sourceMapCache, sourceMapByPath, ev.target)
    IN  IF ~ModifierFlag(ev.keys) THEN [ev EXCEPT !.handlers = @ + 1]
        ELSE IF result.found
             THEN [ev EXCEPT
                     !.handlers = @ + 1,
                     !.resolved = @ + 1,
                     !.defaultPrevented = TRUE,
                     !.propagationStopped = TRUE,
                     !.dispatched = @ \o
                         << IF config.action = "clipboard"
                            THEN copyToClipboard(result.file, result.loc)
                            ELSE openInEditor(result.file, result.loc) >>]
        ELSE [ev EXCEPT !.handlers = @ + 1, !.resolved = @ + 1]

RECURSIVE Dispatch(_, _)
Dispatch(ev, n) == IF n = 0 THEN ev ELSE Dispatch(handleClick(ev), n - 1)

\* a click reaches every click listener registered on document
Click(target, e) ==
    /\ listeners["click"] # {}
    /\ target \in Targets
    /\ Len(outbox) < MaxInFlight
    /\ event' = Dispatch([NoEvent EXCEPT !.type = "click", !.target = target,
                                         !.keys = e],
                         Cardinality(listeners["click"]))
    /\ outbox' = outbox \o event'.dispatched
    /\ UNCHANGED <<dom, sourceMapCache, sourceMapByPath, config, served, session,
                   isModifierHeld, highlightedElement, lastMouseTarget, tooltip,
                   clipboard, feedback, copyAnimationStyle>>

Without(q, i) == SubSeq(q, 1, i - 1) \o SubSeq(q, i + 1, Len(q))

\* openInEditor after its await: the fetch resolved, or rejected and is logged
FetchSettled(i, ok) ==
    /\ i \in 1..Len(outbox)
    /\ outbox[i].kind = "fetch"
    /\ outbox' = Without(outbox, i)
    /\ event' = [NoEvent EXCEPT !.type = "settled", !.logged = ~ok]
    /\ UNCHANGED <<dom, sourceMapCache, sourceMapByPath, config, served, session,
                   isModifierHeld, highlightedElement, lastMouseTarget, tooltip,
                   clipboard, feedback, copyAnimationStyle>>

\* a copyToClipboard that shows the confirmation after its try and catch
ClipboardSettledAlwaysFeedback(i, ok) ==
    /\ i \in 1..Len(outbox)
    /\ outbox[i].kind = "clipboard"
    /\ outbox' = Without(outbox, i)
    /\ clipboard' = IF ok THEN outbox[i].data ELSE clipboard
    /\ feedback' = feedback \cup {outbox[i].data}
    /\ copyAnimationStyle' = TRUE
    /\ event' = [NoEvent EXCEPT !.type = "settled", !.logged = ~ok]
    /\ UNCHANGED <<dom, sourceMapCache, sourceMapByPath, config, served, session,
                   isModifierHeld, highlightedElement, lastMouseTarget, tooltip>>

\* copyToClipboard after its await: showCopyFeedback, or the catch
ClipboardSettled(i, ok) ==
    /\ i \in 1..Len(outbox)
    /\ outbox[i].kind = "clipboard"
    /\ outbox' = Without(outbox, i)
    /\ IF ok
       THEN /\ clipboard' = outbox[i].data
            /\ feedback' = feedback \cup {outbox[i].data}
            /\ copyAnimationStyle' = TRUE
       ELSE UNCHANGED <<clipboard, feedback, copyAnimationStyle>>
    /\ event' = [NoEvent EXCEPT !.type = "settled", !.logged = ~ok]
    /\ UNCHANGED <<dom, sourceMapCache, sourceMapByPath, config, served, session,
                   isModifierHeld, highlightedElement, lastMouseTarget, tooltip>>

\* setTimeout(() => feedback.remove(), 2000)
FeedbackExpired(text) ==
    /\ text \in feedback
    /\ feedback' = feedback \ {text}
    /\ event' = NoEvent
    /\ UNCHANGED <<dom, sourceMapCache, sourceMapByPath, config, served, session,
                   isModifierHeld, highlightedElement, lastMouseTarget, tooltip,
                   outbox, clipboard, copyAnimationStyle>>

\* ------------------------------------------------------------------------
\* The script (the IIFE) and its teardown
\* ------------------------------------------------------------------------
\* a teardown whose removeEventListener('click', ...) does not name the
\* capture phase, and so removes nothing
CleanupKeepsClick(t, i) ==
    [u         |-> removeHighlight(
                       [t.u EXCEPT !.dom = BodyClassRemove(t.u.dom, ActiveClass)]),
     listeners |-> [ty \in EventTypes |->
                       IF ty = "click" THEN t.listeners[ty]
                       ELSE t.listeners[ty] \ {i}],
     styles    |-> t.styles \ {i},
     tips      |-> t.tips \ {i}]

\* a teardown that leaves the tooltip node in the document
CleanupKeepsTooltip(t, i) ==
    [u         |-> removeHighlight(
                       [t.u EXCEPT !.dom = BodyClassRemove(t.u.dom, ActiveClass)]),
     listeners |-> [ty \in EventTypes |-> t.listeners[ty] \ {i}],
     styles    |-> t.styles \ {i},
     tips      |-> t.tips]

\* window.__clickToSourceCleanup of instance i, on t = [u, listeners, styles, tips]
Cleanup(t, i) ==
    [u         |-> removeHighlight(
                       [t.u EXCEPT !.dom = BodyClassRemove(t.u.dom, ActiveClass)]),
     listeners |-> [ty \in EventTypes |-> t.listeners[ty] \ {i}],
     styles    |-> t.styles \ {i},
     tips      |-> t.tips \ {i}]

\* document.getElementById('click-to-source-styles')?.remove(), then append
InjectStyle(styles, i) ==
    (IF styles = {} THEN {} ELSE styles \ {Min(styles)}) \cup {i}

ScriptInit ==
    LET c == cacheSourceMappings(dom, sourceMapCache, sourceMapByPath)
        t0 == [u |-> Page, listeners |-> listeners,
               styles |-> styleNodes, tips |-> tooltipNodes]
        t1 == IF cleanup # 0 THEN Cleanup(t0, cleanup) ELSE t0
        i  == inits + 1
    IN  /\ inits < MaxInits
        /\ inits' = i
        /\ sourceMapByPath' = c.byPath
        /\ isModifierHeld' = FALSE
        /\ dom' = Collect(t1.u.dom, {})
        /\ sourceMapCache' = CollectCache(t1.u.dom, {}, c.cache)
        /\ highlightedElement' = NoNode
        /\ lastMouseTarget' = NoNode
        /\ styleNodes' = IF config.showHighlight
                         THEN InjectStyle(t1.styles, i) ELSE t1.styles
        /\ tooltipNodes' = IF config.showHighlight
                           THEN t1.tips \cup {i} ELSE t1.tips
        /\ tooltip' = IF config.showHighlight THEN NewTooltip ELSE NoTooltip
        /\ listeners' = [ty \in EventTypes |-> t1.listeners[ty] \cup {i}]
        /\ cleanup' = i
        /\ event' = NoEvent
        /\ UNCHANGED <<config, served, async>>

\* import.meta.hot.on('vite:afterUpdate', ...): one callback per script run
RECURSIVE CacheTimes(_, _, _)
CacheTimes(d, c, n) ==
    IF n = 0 THEN c
    ELSE CacheTimes(d, cacheSourceMappings(d, c.cache, c.byPath), n - 1)

\* an update callback that also forgets that the modifier is held
AfterUpdateReleases ==
    LET c == CacheTimes(dom, [cache |-> sourceMapCache, byPath |-> sourceMapByPath],
                        inits)
    IN  /\ inits > 0
        /\ sourceMapCache' = c.cache
        /\ sourceMapByPath' = c.byPath
        /\ isModifierHeld' = FALSE
        /\ event' = [NoEvent EXCEPT !.type = "afterUpdate"]
        /\ UNCHANGED <<dom, config, served, session, highlightedElement,
                       lastMouseTarget, tooltip, async>>

AfterUpdate ==
    LET c == CacheTimes(dom, [cache |-> sourceMapCache, byPath |-> sourceMapByPath],
                        inits)
    IN  /\ inits > 0
        /\ sourceMapCache' = c.cache
        /\ sourceMapByPath' = c.byPath
        /\ event' = [NoEvent EXCEPT !.type = "afterUpdate"]
        /\ UNCHANGED <<dom, config, served, session, isModifierHeld, highlightedElement,
                       lastMouseTarget, tooltip, async>>

\* ------------------------------------------------------------------------
\* The renderer and HMR patching the page (environment)
\* ------------------------------------------------------------------------
FreshEl == Min({ e \in El : ~dom[e].used })

NewNode(p, shape, attr) ==
    [used |-> TRUE, parent |-> p, tagName |-> shape.tagName, id |-> shape.id,
     className |-> shape.className, file |-> attr.file, loc |-> attr.loc]

Patched(d) ==
    /\ dom' = Collect(d, {highlightedElement, lastMouseTarget})
    /\ sourceMapCache' =
           CollectCache(d, {highlightedElement, lastMouseTarget}, sourceMapCache)
    /\ event' = NoEvent
    /\ UNCHANGED <<sourceMapByPath, config, served, session, isModifierHeld,
                   highlightedElement, lastMouseTarget, tooltip, async>>

\* a new element is rendered as the last child of p
Render(p, shape, attr) ==
    /\ \E f \in El : ~dom[f].used
    /\ p \in Nodes /\ InDocument(dom, p)
    /\ Patched([dom EXCEPT ![FreshEl] = NewNode(p, shape, attr)])

\* e is taken out of the document and a new element stands in its place
Replace(e, shape, attr) ==
    /\ \E f \in El : ~dom[f].used
    /\ e \in El /\ InDocument(dom, e)
    /\ Patched([dom EXCEPT ![FreshEl] = NewNode(dom[e].parent, shape, attr),
                           ![e].parent = NoNode])

\* the source attributes of e are rewritten or stripped in place
SetAttributes(e, attr) ==
    /\ e \in El /\ InDocument(dom, e)
    /\ attr # [file |-> dom[e].file, loc |-> dom[e].loc]
    /\ Patched([dom EXCEPT ![e].file = attr.file, ![e].loc = attr.loc])

\* ------------------------------------------------------------------------
\* Specifications
\* ------------------------------------------------------------------------
Init ==
    /\ dom = [n \in Nodes |-> IF n = Body THEN BodyNode ELSE UnusedNode]
    /\ sourceMapCache = <<>>
    /\ sourceMapByPath = <<>>
    /\ config \in { clickToSource(o, env) : o \in OptionChoices, env \in EnvChoices }
    /\ inits = 0
    /\ listeners = [ty \in EventTypes |-> {}]
    /\ cleanup = 0
    /\ isModifierHeld = FALSE
    /\ highlightedElement = NoNode
    /\ lastMouseTarget = NoNode
    /\ styleNodes = {}
    /\ tooltipNodes = {}
    /\ tooltip = NoTooltip
    /\ outbox = <<>>
    /\ clipboard = NULL
    /\ feedback = {}
    /\ copyAnimationStyle = FALSE
    /\ event = NoEvent
    /\ served = NotServed

SmallPage == Cardinality({ e \in El : dom[e].used }) < MaxPageEl

\* the default integration, and Ctrl with CLICK_TO_SOURCE=clipboard
SessionConfigs ==
    { clickToSource([modifier |-> "", showHighlight |-> TRUE], ""),
      clickToSource([modifier |-> "ctrl", showHighlight |-> TRUE], "clipboard") }

InitSession == Init /\ config \in SessionConfigs

\* Clicks: the script, HMR updates, click events and the settling of what
\* they send, while the page is rendered (at most MaxPageEl elements)
NextClick ==
    \/ ScriptInit
    \/ AfterUpdate
    \/ \E n \in Targets, e \in KeyFlags : Click(n, e)
    \/ \E i \in 1..MaxInFlight + 1, ok \in BOOLEAN : FetchSettled(i, ok)
    \/ \E i \in 1..MaxInFlight + 1, ok \in BOOLEAN : ClipboardSettled(i, ok)
    \/ \E text \in feedback : FeedbackExpired(text)
    \/ \E p \in Nodes, s \in ShapeChoices, a \in AttrChoices :
           SmallPage /\ Render(p, s, a)

SpecClick == InitSession /\ [][NextClick]_vars

\* Hovering: the script, HMR updates and the key, blur and pointer handlers,
\* on a page of at most MaxPageEl elements
NextHover ==
    \/ ScriptInit
    \/ AfterUpdate
    \/ \E e \in KeyFlags : handleKeydown(e)
    \/ \E e \in KeyFlags : handleKeyup(e)
    \/ handleBlur
    \/ \E n \in Targets : handleMousemove(n)
    \/ \E p \in Nodes, s \in ShapeChoices, a \in AttrChoices :
           SmallPage /\ Render(p, s, a)
    \/ \E e \in El, s \in ShapeChoices, a \in AttrChoices :
           SmallPage /\ Replace(e, s, a)

InitHover ==
    /\ Init
    /\ config = clickToSource([modifier |-> "", showHighlight |-> TRUE], "")

SpecHover == InitHover /\ [][NextHover]_vars

\* The cache and the resolver under renderer and HMR churn on a page of up
\* to MaxEl elements.  It starts where the default script has run once on a
\* page that is still empty; elements are rendered, patched and replaced,
\* and each HMR update snapshots them.
InitCache ==
    /\ dom = [n \in Nodes |-> IF n = Body THEN BodyNode ELSE UnusedNode]
    /\ sourceMapCache = <<>>
    /\ sourceMapByPath = <<>>
    /\ config = clickToSource([modifier |-> "", showHighlight |-> TRUE], "")
    /\ inits = 1
    /\ listeners = [ty \in EventTypes |-> {1}]
    /\ cleanup = 1
    /\ isModifierHeld = FALSE
    /\ highlightedElement = NoNode
    /\ lastMouseTarget = NoNode
    /\ styleNodes = {1}
    /\ tooltipNodes = {1}
    /\ tooltip = NewTooltip
    /\ outbox = <<>>
    /\ clipboard = NULL
    /\ feedback = {}
    /\ copyAnimationStyle = FALSE
    /\ event = NoEvent
    /\ served = NotServed

NextCache ==
    \/ AfterUpdate
    \/ \E p \in Nodes, s \in ShapeChoices, a \in AttrChoices : Render(p, s, a)
    \/ \E e \in El, s \in ShapeChoices, a \in AttrChoices : Replace(e, s, a)
    \/ \E e \in El, a \in AttrChoices : SetAttributes(e, a)

SpecCache == InitCache /\ [][NextCache]_vars

\* Path normalization: one element whose source file is any path of up to
\* MaxSegments segments, on a page where the script has run once in
\* clipboard mode; the modifier is pressed, the pointer moves over the
\* element, it is clicked, and the clipboard write settles.
SegmentChoices ==
    { <<>>, <<"s","r","c">>, <<"a">>, <<"s","r","c","s">> }

PathsOf(n) ==
    { Join(segs, <<"/">>) : segs \in [1..n -> SegmentChoices] }

NormFiles == UNION { PathsOf(n) : n \in 1..MaxSegments }

AltOnly == [NoKeys EXCEPT !.altKey = TRUE]

InitNorm ==
    /\ \E f \in NormFiles :
           dom = [n \in Nodes |->
                     IF n = Body THEN BodyNode
                     ELSE IF n = 1
                          THEN NewNode(Body, [tagName |-> <<"A">>, id |-> <<>>,
                                              className |-> <<>>],
                                       [file |-> f, loc |-> NULL])
                     ELSE UnusedNode]
    /\ sourceMapCache = <<>>
    /\ sourceMapByPath = <<>>
    /\ config = clickToSource([modifier |-> "", showHighlight |-> TRUE], "clipboard")
    /\ inits = 1
    /\ listeners = [ty \in EventTypes |-> {1}]
    /\ cleanup = 1
    /\ isModifierHeld = FALSE
    /\ highlightedElement = NoNode
    /\ lastMouseTarget = NoNode
    /\ styleNodes = {1}
    /\ tooltipNodes = {1}
    /\ tooltip = NewTooltip
    /\ outbox = <<>>
    /\ clipboard = NULL
    /\ feedback = {}
    /\ copyAnimationStyle = FALSE
    /\ event = NoEvent
    /\ served = NotServed

NextNorm ==
    \/ handleKeydown(AltOnly)
    \/ \E n \in El : handleMousemove(n)
    \/ \E n \in El : Click(n, AltOnly)
    \/ ClipboardSettled(1, TRUE)

SpecNorm == InitNorm /\ [][NextNorm]_vars

\* Highlighting: the hover events on a page of HTML elements, together with
\* modifier clicks, which happen where the pointer last moved, and their
\* requests, which complete.
HtmlShapes == { s \in ShapeChoices : s.tagName = <<"A">> }

NextHighlight ==
    \/ ScriptInit
    \/ AfterUpdate
    \/ \E e \in KeyFlags : handleKeydown(e)
    \/ \E e \in KeyFlags : handleKeyup(e)
    \/ handleBlur
    \/ \E n \in Targets : handleMousemove(n)
    \/ Click(lastMouseTarget, AltOnly)
    \/ FetchSettled(1, TRUE)
    \/ \E p \in Nodes, s \in HtmlShapes, a \in AttrChoices :
           SmallPage /\ Render(p, s, a)
    \/ \E e \in El, s \in HtmlShapes, a \in AttrChoices :
           SmallPage /\ Replace(e, s, a)

SpecHighlight == InitHover /\ [][NextHighlight]_vars

\* Index frame: every writer and every non-writer of the two indexes on a
\* page of plain anchors under body: script runs, snapshots, the five input handlers,
\* requests, and HMR rendering, replacing and rewriting attributes in place.
PlainShapes == { s \in ShapeChoices : s.tagName = <<"A">> /\ s.id = <<>> }

NextFrame ==
    \/ ScriptInit
    \/ AfterUpdate
    \/ handleKeydown(AltOnly)
    \/ handleKeyup(NoKeys)
    \/ handleBlur
    \/ \E n \in Targets : handleMousemove(n)
    \/ Click(lastMouseTarget, AltOnly)
    \/ FetchSettled(1, TRUE)
    \/ \E s \in PlainShapes, a \in AttrChoices :
           SmallPage /\ Render(Body, s, a)
    \/ \E e \in El, s \in PlainShapes, a \in AttrChoices :
           SmallPage /\ Replace(e, s, a)
    \/ \E e \in El, a \in AttrChoices : SetAttributes(e, a)

SpecFrame == InitHover /\ [][NextFrame]_vars

\* Paths: a page whose author wrote class lists on one line or on several,
\* on body and on the elements, under the default script after its first run.
LineBreakClasses == <<"c", "\n", "d">>
BodyClassChoices == { <<>>, <<"x", "\n", "y">> }

PathShapes ==
    { [tagName |-> <<"A">>, id |-> <<>>, className |-> <<"c">>],
      [tagName |-> <<"A">>, id |-> <<>>, className |-> LineBreakClasses] }

InitPath ==
    /\ dom \in { [n \in Nodes |->
                     IF n = Body THEN [BodyNode EXCEPT !.className = c]
                     ELSE UnusedNode] : c \in BodyClassChoices }
    /\ sourceMapCache = <<>>
    /\ sourceMapByPath = <<>>
    /\ config = clickToSource([modifier |-> "", showHighlight |-> TRUE], "")
    /\ inits = 1
    /\ listeners = [ty \in EventTypes |-> {1}]
    /\ cleanup = 1
    /\ isModifierHeld = FALSE
    /\ highlightedElement = NoNode
    /\ lastMouseTarget = NoNode
    /\ styleNodes = {1}
    /\ tooltipNodes = {1}
    /\ tooltip = NewTooltip
    /\ outbox = <<>>
    /\ clipboard = NULL
    /\ feedback = {}
    /\ copyAnimationStyle = FALSE
    /\ event = NoEvent
    /\ served = NotServed

NextPath ==
    \/ ScriptInit
    \/ AfterUpdate
    \/ handleKeydown(AltOnly)
    \/ handleKeyup(NoKeys)
    \/ handleBlur
    \/ \E n \in Targets : handleMousemove(n)
    \/ \E p \in Nodes, s \in PathShapes, a \in AttrChoices :
           SmallPage /\ Render(p, s, a)
    \/ \E e \in El, s \in PathShapes, a \in AttrChoices :
           SmallPage /\ Replace(e, s, a)

SpecPath == InitPath /\ [][NextPath]_vars

\* Stripping: on a page of at most MaxPageEl elements where the default
\* script has run once, the modifier is pressed, the pointer moves, HMR
\* rewrites or strips attributes in place, and updates are notified.
NextStrip ==
    \/ handleKeydown(AltOnly)
    \/ \E n \in Targets : handleMousemove(n)
    \/ AfterUpdate
    \/ \E p \in Nodes, sh \in ShapeChoices, a \in AttrChoices :
           SmallPage /\ Render(p, sh, a)
    \/ \E e \in El, a \in AttrChoices : SetAttributes(e, a)

SpecStrip == InitCache /\ [][NextStrip]_vars

\* The dev server: requests of any client, one at a time, beside a page
\* session that stays as InitCache leaves it.
NextServer ==
    \/ \E r \in Requests : Request(r)
    \/ LaunchFailed

SpecServer == InitCache /\ [][NextServer]_vars

\* ========================================================================
\* Properties of the cache and the resolver (SpecCache)
\* ========================================================================
InDoc == { e \in El : InDocument(dom, e) }

Resolve(n) == findSourceElement(dom, sourceMapCache, sourceMapByPath, n)

HasAttr(n) == n \in Nodes /\ dom[n].file # NULL

Indexed(n) == n \in DOMAIN sourceMapCache

\* the nearest proper ancestor of n that carries the source attribute
RECURSIVE NearestAttrFrom(_)
NearestAttrFrom(m) ==
    IF m \notin Nodes THEN NoNode
    ELSE IF HasAttr(m) THEN m
    ELSE NearestAttrFrom(dom[m].parent)

NearestAttrAncestor(n) == NearestAttrFrom(dom[n].parent)

\* n and its ancestors below a (a excluded)
RECURSIVE ChainBelow(_, _)
ChainBelow(n, a) ==
    IF n = a \/ n \notin Nodes THEN {}
    ELSE {n} \cup ChainBelow(dom[n].parent, a)

\* C1 (as claimed): in every reachable state, an element below the document
\* root that carries data-astro-source-file resolves to itself with the file
\* and location its attributes hold now.
C1_ResolutionCorrectness ==
    \A e \in InDoc :
        HasAttr(e) => Resolve(e) = Found(e, dom[e].file, dom[e].loc)

\* C2 (as claimed): when an indexed element e is replaced by a new element n
\* of the same tag and structural path that carries no source attribute, n
\* resolves to itself with the file and location e was indexed with.
IsReplacement(e, n) ==
    /\ InDocument(dom, e) /\ ~InDocument(dom', e)
    /\ ~dom[n].used /\ InDocument(dom', n)
    /\ dom'[n].file = NULL
    /\ dom'[n].tagName = dom[e].tagName
    /\ getElementPath(dom', n) = getElementPath(dom, e)

ResolvedAfter(n) ==
    findSourceElement(dom', sourceMapCache', sourceMapByPath', n)

C2_HmrSurvival ==
    [][ \A e \in El, n \in El :
            (IsReplacement(e, n) /\ Indexed(e))
            => ResolvedAfter(n) =
                   Found(n, sourceMapCache[e].file, sourceMapCache[e].loc) ]_vars

\* C2 (amended): the same, provided the structural-path index still holds at
\* that path the entry e wrote: no other element with the same path was
\* indexed after e with another file, location or tag name.
PathEntryOf(e) ==
    [file |-> sourceMapCache[e].file, loc |-> sourceMapCache[e].loc,
     tagName |-> dom[e].tagName]

C2_HmrSurvivalWhileEntryKept ==
    [][ \A e \in El, n \in El :
            ( /\ IsReplacement(e, n)
              /\ Indexed(e)
              /\ getElementPath(dom, e) \in DOMAIN sourceMapByPath
              /\ sourceMapByPath[getElementPath(dom, e)] = PathEntryOf(e) )
            => ResolvedAfter(n) =
                   Found(n, sourceMapCache[e].file, sourceMapCache[e].loc) ]_vars

\* C2 witness: a replacement stands where an indexed element stood, carries
\* no attribute, and the path index holds an entry for its place
C2_Witness ==
    \E n \in InDoc :
        /\ ~HasAttr(n) /\ ~Indexed(n)
        /\ PathHit(dom, sourceMapByPath, n)
        /\ \E g \in El : g # n /\ dom[g] = GoneNode
        /\ Resolve(n).found /\ Resolve(n).element = n

\* C3 (as claimed): an attribute-less element resolves to the file and
\* location of its nearest attribute-carrying ancestor, and no node outside
\* that ancestor's subtree, on a chain that carries no attribute at all,
\* resolves to the ancestor's file and location.
C3_AncestorFallback ==
    /\ \A x \in InDoc :
           (~HasAttr(x) /\ NearestAttrAncestor(x) # NoNode)
           => /\ Resolve(x).found
              /\ Resolve(x).file = dom[NearestAttrAncestor(x)].file
              /\ Resolve(x).loc = dom[NearestAttrAncestor(x)].loc
    /\ \A a \in InDoc, n \in InDoc :
           ( /\ HasAttr(a)
             /\ ~IsWithin(dom, n, a)
             /\ ~HasAttr(n) /\ NearestAttrAncestor(n) = NoNode )
           => ~( /\ Resolve(n).found
                 /\ Resolve(n).file = dom[a].file
                 /\ Resolve(n).loc = dom[a].loc )

\* C3 (amended): an attribute-less element x that is itself neither indexed
\* nor matched by the path index, and has only such nodes between it and its
\* nearest attribute-carrying ancestor a, resolves to a, with a's identity
\* entry when a is indexed and a's current attributes otherwise.  A node
\* outside a's subtree never resolves to the element a; what it resolves to
\* is a node of its own chain that is indexed, carries the attribute or is
\* matched by the path index (which may hold what a wrote, if that node
\* shares a's path and tag name).
C3_AncestorFallbackBelowIndexes ==
    /\ \A x \in InDoc :
           LET a == NearestAttrAncestor(x)
           IN  ( /\ ~HasAttr(x)
                 /\ a # NoNode
                 /\ \A m \in ChainBelow(x, a) :
                        ~Indexed(m) /\ ~PathHit(dom, sourceMapByPath, m) )
               => Resolve(x) =
                      IF Indexed(a)
                      THEN Found(a, sourceMapCache[a].file, sourceMapCache[a].loc)
                      ELSE Found(a, dom[a].file, dom[a].loc)
    /\ \A a \in InDoc, n \in InDoc :
           (HasAttr(a) /\ ~IsWithin(dom, n, a))
           => /\ Resolve(n).element # a
              /\ Resolve(n).found =>
                   /\ IsWithin(dom, n, Resolve(n).element)
                   /\ \/ Indexed(Resolve(n).element)
                      \/ HasAttr(Resolve(n).element)
                      \/ PathHit(dom, sourceMapByPath, Resolve(n).element)

\* C3 witness: an attribute-less, unindexed, unmatched element resolved to
\* its indexed ancestor, beside a node outside that ancestor's subtree
C3_Witness ==
    \E x \in InDoc, n \in InDoc :
        LET a == NearestAttrAncestor(x)
        IN  /\ ~HasAttr(x) /\ a # NoNode /\ Indexed(a)
            /\ ~Indexed(x) /\ ~PathHit(dom, sourceMapByPath, x)
            /\ Resolve(x).element = a
            /\ ~IsWithin(dom, n, a) /\ Resolve(n).found

\* C5: an attribute-less, unindexed element whose structural path has an
\* entry stored under another tag name is not given that entry: it resolves
\* as its parent does.
TagMismatch(e) ==
    /\ ~HasAttr(e) /\ ~Indexed(e)
    /\ getElementPath(dom, e) \in DOMAIN sourceMapByPath
    /\ sourceMapByPath[getElementPath(dom, e)].tagName # dom[e].tagName

C5_TagGuardRejection ==
    \A e \in InDoc :
        TagMismatch(e)
        => /\ Resolve(e).element # e
           /\ Resolve(e) = Resolve(dom[e].parent)

C5_Witness == \E e \in InDoc : TagMismatch(e)

\* C6: right after a snapshot, with the page unchanged, a second snapshot
\* leaves both indexes as they are, and every node resolves as before.
SnapshotAgain == cacheSourceMappings(dom, sourceMapCache, sourceMapByPath)

C6_IdempotentSnapshot ==
    event.type = "afterUpdate"
    => /\ SnapshotAgain.cache = sourceMapCache
       /\ SnapshotAgain.byPath = sourceMapByPath
       /\ \A n \in Targets :
              findSourceElement(dom, SnapshotAgain.cache, SnapshotAgain.byPath, n)
              = Resolve(n)

\* C6 witness: a snapshot has just indexed two elements that share a path
C6_Witness ==
    /\ event.type = "afterUpdate"
    /\ \E e \in InDoc, f \in InDoc :
           /\ e # f /\ Indexed(e) /\ Indexed(f)
           /\ getElementPath(dom, e) = getElementPath(dom, f)
           /\ sourceMapCache[e] # sourceMapCache[f]

\* ========================================================================
\* Path normalization (SpecNorm)
\* ========================================================================
MarkerAt(f, i) == i + 4 <= Len(f) /\ SubSeq(f, i, i + 4) = SrcMarker

HasMarker(f) == \E i \in 1..Len(f) : MarkerAt(f, i)

FirstMarker(f) ==
    CHOOSE i \in 1..Len(f) : MarkerAt(f, i) /\ \A j \in 1..(i - 1) : ~MarkerAt(f, j)

Slashes(f) == { i \in 1..Len(f) : f[i] = "/" }

\* the slash in front of the last three segments
CutSlash(f) ==
    CHOOSE k \in Slashes(f) : Cardinality({ i \in Slashes(f) : i > k }) = 2

\* the suffix from the first marker's 'src/', or the last three segments
Normalized(f) ==
    IF HasMarker(f) THEN SubSeq(f, FirstMarker(f) + 1, Len(f))
    ELSE IF Cardinality(Slashes(f)) <= 2 THEN f
    ELSE SubSeq(f, CutSlash(f) + 1, Len(f))

\* C7: the tooltip's file text and the text given to the clipboard are the
\* suffix of the resolved file from its first '/src/' marker's 'src/' on,
\* or its last three '/'-separated segments when it has no marker; and the
\* two normalizations agree.
C7_PathNormalization ==
    /\ (tooltip.visible /\ highlightedElement # NoNode)
       => tooltip.file = Normalized(Resolve(highlightedElement).file)
    /\ (event.type = "click" /\ event.dispatched # <<>>)
       => /\ event.dispatched[1].kind = "clipboard"
          /\ event.dispatched[1].data = Normalized(Resolve(event.target).file)
    /\ clipboard # NULL => clipboard = Normalized(dom[1].file)
    /\ displayPath(dom[1].file) = relativePath(dom[1].file)

\* C7 witness: a path with a marker that is not at its start has been shown
\* in the tooltip and copied
C7_Witness ==
    /\ tooltip.visible
    /\ clipboard = tooltip.file
    /\ HasMarker(dom[1].file)
    /\ FirstMarker(dom[1].file) > 1
    /\ Len(clipboard) < Len(dom[1].file)

\* ========================================================================
\* Clicks and what they send (SpecClick)
\* ========================================================================
\* the flag of the pointer event that the configured modifier names
ConfiguredFlag ==
    CASE config.modifier = "alt"   -> event.keys.altKey
      [] config.modifier = "ctrl"  -> event.keys.ctrlKey
      [] config.modifier = "meta"  -> event.keys.metaKey
      [] config.modifier = "shift" -> event.keys.shiftKey

ModifierClick == event.type = "click" /\ ConfiguredFlag

\* a click with the flag set, on a target the resolver finds a source for
HandledClick == ModifierClick /\ Resolve(event.target).found

\* C4: a click without the configured modifier flag runs no resolver, calls
\* neither preventDefault nor stopPropagation and dispatches nothing; a click
\* with the flag on a resolvable target suppresses the default action and
\* dispatches exactly one outbound action, a fetch in editor mode and a
\* clipboard write in clipboard mode, however often the script has run.
C4_ModifierGating ==
    /\ (event.type = "click" /\ ~ConfiguredFlag)
       => /\ event.resolved = 0
          /\ ~event.defaultPrevented
          /\ ~event.propagationStopped
          /\ event.dispatched = <<>>
    /\ HandledClick
       => /\ event.defaultPrevented
          /\ Len(event.dispatched) = 1
          /\ event.dispatched[1].kind =
                 (IF config.action = "clipboard" THEN "clipboard" ELSE "fetch")

\* C4 witness: after the script has run twice, a modifier-click on a
\* resolvable target has sent its one action
C4_Witness ==
    /\ inits = 2
    /\ HandledClick
    /\ Len(event.dispatched) = 1

\* C8: in editor mode the request of a handled modifier-click goes to
\* /__open-in-editor with the resolved file, untruncated, as its file
\* parameter; a location L:C is sent as line=L and column=C, and without a
\* location there is neither parameter and the request is sent all the same.
C8_EditorRequest ==
    (HandledClick /\ config.action = "editor")
    => LET r   == Resolve(event.target)
           url == event.dispatched[1].data
       IN  /\ Len(event.dispatched) = 1
           /\ event.dispatched[1].kind = "fetch"
           /\ Pathname(url) = EndpointPath
           /\ SearchParamsGet(url, FileParam) = r.file
           /\ r.loc # NULL
              => /\ SearchParamsGet(url, LineParam) # NULL
                 /\ SearchParamsGet(url, ColumnParam) # NULL
                 /\ r.loc = SearchParamsGet(url, LineParam) \o <<":">>
                             \o SearchParamsGet(url, ColumnParam)
           /\ r.loc = NULL
              => /\ SearchParamsGet(url, LineParam) = NULL
                 /\ SearchParamsGet(url, ColumnParam) = NULL

\* C8 witness: a request was sent for a file whose display path is shorter
\* than the file, with a location
C8_Witness ==
    /\ HandledClick /\ config.action = "editor"
    /\ Resolve(event.target).file = FileA
    /\ Resolve(event.target).loc = LocA
    /\ Normalized(FileA) # FileA

\* C9: in clipboard mode a handled modifier-click asks the clipboard to take
\* the normalized path, followed by ':' and the location when there is one,
\* and no request is ever sent; in editor mode nothing is ever written to the
\* clipboard; and a confirmation appears only in the step in which the write
\* of its text has succeeded.
C9_ClipboardText ==
    Normalized(Resolve(event.target).file)
    \o (IF Resolve(event.target).loc # NULL
        THEN <<":">> \o Resolve(event.target).loc ELSE <<>>)

C9_State ==
    /\ (HandledClick /\ config.action = "clipboard")
       => event.dispatched = << [kind |-> "clipboard", data |-> C9_ClipboardText] >>
    /\ config.action = "clipboard"
       => \A i \in 1..Len(outbox) : outbox[i].kind # "fetch"
    /\ config.action = "editor"
       => /\ \A i \in 1..Len(outbox) : outbox[i].kind # "clipboard"
          /\ clipboard = NULL
          /\ feedback = {}

C9_Step ==
    \A text \in feedback' \ feedback :
        /\ \E i \in 1..Len(outbox) :
               outbox[i] = [kind |-> "clipboard", data |-> text]
        /\ clipboard' = text
        /\ event'.type = "settled" /\ ~event'.logged

C9_ClipboardMode == []C9_State /\ [][C9_Step]_vars

\* C9 witness: the normalized path and the location are on the clipboard and
\* the confirmation is on the page
C9_Witness ==
    /\ config.action = "clipboard"
    /\ clipboard = Normalized(FileA) \o <<":">> \o LocA
    /\ clipboard \in feedback

\* ========================================================================
\* The endpoint (SpecServer)
\* ========================================================================
\* C10 (as claimed): a request to /__open-in-editor without a file
\* parameter, or with an empty one, gets status 400 and a JSON body with an
\* error field and launches no editor; a request to any other URL is passed
\* to the next middleware untouched.
MissingFileRejected ==
    ( /\ served.handled
      /\ served.request.path = EndpointPath
      /\ served.request.file \in {NULL, <<>>} )
    => /\ served.statusCode = 400
       /\ served.contentType = "application/json"
       /\ served.body.kind = "error"
       /\ served.launched = <<>>
       /\ ~served.next

OtherUrlsPassedOn ==
    (served.handled /\ served.request.path # EndpointPath)
    => /\ served.next
       /\ served.statusCode = 0
       /\ served.body = NoBody
       /\ served.launched = <<>>

C10_EndpointErrorContract == MissingFileRejected /\ OtherUrlsPassedOn

\* C11: a request to the endpoint with a non-empty file parameter gets
\* status 200, Access-Control-Allow-Origin: * and the body
\* {success: true, file: S}, where S is the file, followed by ':' and the
\* line when a line is given, and then by ':' and the column when a column
\* is given too (a column without a line is dropped); the editor is launched
\* exactly once, with S; and the response stays as it is when the launch
\* reports a failure afterwards.
Given(v) == v # NULL /\ v # <<>>

ExpectedSpec(r) ==
    IF Given(r.line) /\ Given(r.column)
    THEN r.file \o <<":">> \o r.line \o <<":">> \o r.column
    ELSE IF Given(r.line) THEN r.file \o <<":">> \o r.line
    ELSE r.file

FileRequest ==
    /\ served.handled
    /\ served.request.path = EndpointPath
    /\ Given(served.request.file)

C11_EndpointSuccessContract ==
    FileRequest
    => /\ served.statusCode = 200
       /\ served.allowOrigin = "*"
       /\ served.body = [kind |-> "success", success |-> TRUE,
                         file |-> ExpectedSpec(served.request)]
       /\ served.launched = << ExpectedSpec(served.request) >>
       /\ ~served.next

\* C11 witness: file=/a/b.txt&line=5&column=2 was answered, and the launch
\* has reported a failure since
C11_Witness ==
    /\ FileRequest
    /\ served.request.file = <<"/","a","/","b",".","t","x","t">>
    /\ served.request.line = <<"5">>
    /\ served.request.column = <<"2">>
    /\ served.body.file =
           <<"/","a","/","b",".","t","x","t",":","5",":","2">>
    /\ served.logged

\* ========================================================================
\* The interaction state (SpecHover)
\* ========================================================================
HasClassIn(d, n, tok) ==
    \E i \in 1..Len(ClassTokens(d[n].className)) :
        ClassTokens(d[n].className)[i] = tok

HasClass(n, tok) == HasClassIn(dom, n, tok)

\* the nodes, attached or detached, that carry the highlight class
Highlighted == { n \in Nodes : dom[n].used /\ HasClass(n, HighlightClass) }

\* C12: right after a window blur the modifier is tracked as not held, the
\* last pointer position and highlightedElement are null, no element carries
\* the highlight class, the tooltip is hidden and the body has no active
\* class; and as long as the pointer has not moved again (the last pointer
\* position is null) nothing is highlighted, whatever key is pressed.
C12_BlurReset ==
    /\ event.type = "blur"
       => /\ ~isModifierHeld
          /\ lastMouseTarget = NoNode
          /\ highlightedElement = NoNode
          /\ Highlighted = {}
          /\ ~tooltip.visible
          /\ ~HasClass(Body, ActiveClass)
    /\ lastMouseTarget = NoNode
       => /\ highlightedElement = NoNode
          /\ Highlighted = {}
          /\ ~tooltip.visible

\* C12 witness: a blur has hidden a tooltip that had shown a file, over a
\* page with an element the resolver finds a source for
C12_Witness ==
    /\ event.type = "blur"
    /\ tooltip.file # <<>>
    /\ \E e \in InDoc : Resolve(e).found

\* C13: the teardown function of the live instance, run on the state as it
\* is, leaves none of the instance's five handlers registered, no node with
\* the highlight class, the body without the active class, and the
\* instance's style and tooltip nodes out of the document; run again on the
\* result it changes nothing.  And once the script has run, however often,
\* each event type has exactly one handler and there is at most one style
\* node and one tooltip node.
TornDown ==
    Cleanup([u |-> Page, listeners |-> listeners,
             styles |-> styleNodes, tips |-> tooltipNodes], cleanup)

C13_Teardown ==
    /\ cleanup # 0
       => /\ \A ty \in EventTypes : cleanup \notin TornDown.listeners[ty]
          /\ \A n \in Nodes : ~HasClassIn(TornDown.u.dom, n, HighlightClass)
          /\ ~HasClassIn(TornDown.u.dom, Body, ActiveClass)
          /\ TornDown.u.hl = NoNode
          /\ ~TornDown.u.tip.visible
          /\ cleanup \notin TornDown.styles
          /\ cleanup \notin TornDown.tips
          /\ Cleanup(TornDown, cleanup) = TornDown
    /\ inits >= 1
       => /\ \A ty \in EventTypes : Cardinality(listeners[ty]) = 1
          /\ Cardinality(styleNodes) <= 1
          /\ Cardinality(tooltipNodes) <= 1

\* C13 witness: the script has run twice, and an element is highlighted
\* while the modifier is held: the teardown has everything to undo
C13_Witness ==
    /\ inits = 2
    /\ cleanup = 2
    /\ isModifierHeld
    /\ highlightedElement # NoNode
    /\ tooltip.visible
    /\ HasClass(Body, ActiveClass)

\* ========================================================================
\* Failures of what a click sends (SpecClick)
\* ========================================================================
\* C14: a step in which a request or a clipboard write fails logs the
\* failure and takes the failed action out of flight, and nothing else: no
\* new action is sent, no confirmation appears, the clipboard, the page,
\* both indexes, the interaction state and the listeners stay as they are.
\* And a handled click leaves its action in flight when the handler returns.
C14_Failure == event'.type = "settled" /\ event'.logged

C14_Step ==
    C14_Failure
    => /\ \E i \in 1..Len(outbox) : outbox' = Without(outbox, i)
       /\ feedback' = feedback
       /\ clipboard' = clipboard
       /\ copyAnimationStyle' = copyAnimationStyle
       /\ dom' = dom
       /\ sourceMapCache' = sourceMapCache
       /\ sourceMapByPath' = sourceMapByPath
       /\ isModifierHeld' = isModifierHeld
       /\ highlightedElement' = highlightedElement
       /\ lastMouseTarget' = lastMouseTarget
       /\ tooltip' = tooltip
       /\ listeners' = listeners

C14_State ==
    HandledClick
    => /\ outbox # <<>>
       /\ outbox[Len(outbox)] = event.dispatched[1]

C14_FailuresContained == []C14_State /\ [][C14_Step]_vars

\* C14 witness: in clipboard mode a write has failed and was logged; the
\* clipboard is untouched and no confirmation is on the page
C14_Witness ==
    /\ event.type = "settled" /\ event.logged
    /\ config.action = "clipboard"
    /\ clipboard = NULL
    /\ feedback = {}
    /\ outbox = <<>>

\* an HMR update is processed while a click's action is in flight
C14_InFlight == event.type = "afterUpdate" /\ outbox # <<>>

\* ========================================================================
\* More properties of the cache and the resolver (SpecCache)
\* ========================================================================
\* C15 (as claimed): a node in the identity index resolves to its entry,
\* whatever its attributes and the path index say; and the entry of an
\* element that still exists and that the renderer annotates equals the
\* file and location of that annotation.
C15_IdentityAuthoritative ==
    /\ \A n \in El :
           (dom[n].used /\ Indexed(n))
           => Resolve(n) = Found(n, sourceMapCache[n].file, sourceMapCache[n].loc)
    /\ \A n \in El :
           (dom[n].used /\ dom[n] # GoneNode /\ Indexed(n) /\ HasAttr(n))
           => sourceMapCache[n] = [file |-> dom[n].file, loc |-> dom[n].loc]

\* the identity index is consulted first (the part of C15 that holds)
IdentityFirst ==
    \A n \in El :
        (dom[n].used /\ Indexed(n))
        => Resolve(n) = Found(n, sourceMapCache[n].file, sourceMapCache[n].loc)

\* ========================================================================
\* HMR updates and the interaction state (SpecHover)
\* ========================================================================
\* C16 (as claimed): a step that processes an HMR update notification
\* replaces the listeners of every event type by new ones and leaves the
\* modifier not held, no last pointer position and no highlighted element.
C16_HmrReinit ==
    [][ event'.type = "afterUpdate"
        => /\ \A ty \in EventTypes :
                  /\ listeners'[ty] # {}
                  /\ listeners'[ty] \cap listeners[ty] = {}
           /\ ~isModifierHeld'
           /\ lastMouseTarget' = NoNode
           /\ highlightedElement' = NoNode ]_vars

\* C16 (amended): a step that processes an HMR update notification runs the
\* snapshot and nothing else: listeners, style and tooltip nodes, modifier
\* state, last pointer position, highlighted element and tooltip stay as they
\* are.  It is a run of the injected script that removes the previous
\* instance's listeners, attaches its own, one per event type, and starts
\* with the modifier not held, no last pointer position and no highlighted
\* element.
C16_HmrSnapshotsScriptReinits ==
    [][ /\ event'.type = "afterUpdate"
           => /\ listeners' = listeners
              /\ styleNodes' = styleNodes /\ tooltipNodes' = tooltipNodes
              /\ isModifierHeld' = isModifierHeld
              /\ lastMouseTarget' = lastMouseTarget
              /\ highlightedElement' = highlightedElement
              /\ tooltip' = tooltip
              /\ dom' = dom
              /\ [cache |-> sourceMapCache', byPath |-> sourceMapByPath']
                 = cacheSourceMappings(dom, sourceMapCache, sourceMapByPath)
        /\ inits' # inits
           => /\ inits' = inits + 1
              /\ \A ty \in EventTypes : listeners'[ty] = {inits'}
              /\ ~isModifierHeld'
              /\ lastMouseTarget' = NoNode
              /\ highlightedElement' = NoNode
              /\ ~tooltip'.visible
              /\ \A n \in Nodes : ~HasClassIn(dom', n, HighlightClass)
              /\ ~HasClassIn(dom', Body, ActiveClass) ]_vars

\* C16 witness: an HMR update has been processed and the modifier is still
\* held, with an element highlighted
C16_Witness ==
    /\ event.type = "afterUpdate"
    /\ isModifierHeld
    /\ highlightedElement # NoNode
    /\ lastMouseTarget # NoNode

\* ========================================================================
\* Path collisions (SpecCache)
\* ========================================================================
\* the elements a snapshot of this state indexes, in the order it visits them
NewlyIndexed ==
    SelectSeq(QuerySourceElements(dom), LAMBDA e : e \notin DOMAIN sourceMapCache)

Position(seq, e) == CHOOSE i \in 1..Len(seq) : seq[i] = e

IsNew(e) == \E i \in 1..Len(NewlyIndexed) : NewlyIndexed[i] = e

\* e and f stand at one structural path with one tag name
Collide(e, f) ==
    /\ e # f
    /\ InDocument(dom, e) /\ InDocument(dom, f)
    /\ getElementPath(dom, e) = getElementPath(dom, f)
    /\ dom[e].tagName = dom[f].tagName

\* in the snapshot of this step e is indexed before f: e was indexed by an
\* earlier snapshot, or the snapshot visits e first
IndexedBefore(e, f) ==
    /\ IsNew(f)
    /\ \/ Indexed(e)
       \/ IsNew(e) /\ Position(NewlyIndexed, e) < Position(NewlyIndexed, f)

\* an unindexed, attribute-less element at the path and with the tag of f
FallsBackAt(n, f) ==
    /\ InDocument(dom', n)
    /\ dom'[n].file = NULL
    /\ n \notin DOMAIN sourceMapCache'
    /\ getElementPath(dom', n) = getElementPath(dom, f)
    /\ dom'[n].tagName = dom[f].tagName

\* C17 (as claimed): when a snapshot indexes f and an element e with the
\* same tag name and structural path was indexed before f, the path entry,
\* and the resolution of an unindexed, attribute-less element at that path,
\* hold the file and location of e.
C17_FirstIndexedWins ==
    [][ event'.type = "afterUpdate"
        => \A e \in El, f \in El :
               (Collide(e, f) /\ IndexedBefore(e, f))
               => /\ sourceMapByPath'[getElementPath(dom, e)].file
                     = sourceMapCache'[e].file
                  /\ sourceMapByPath'[getElementPath(dom, e)].loc
                     = sourceMapCache'[e].loc
                  /\ \A n \in El :
                         FallsBackAt(n, e)
                         => ResolvedAfter(n)
                            = Found(n, sourceMapCache'[e].file,
                                       sourceMapCache'[e].loc) ]_vars

\* C17 (amended): the path entry, and the resolution of an unindexed,
\* attribute-less element of the same tag name at that path, hold the file
\* and location of the element indexed last: after a snapshot, those of the
\* last element in document order that the snapshot indexed at that path.
LastNewAt(f) ==
    /\ IsNew(f)
    /\ \A g \in El :
           (IsNew(g) /\ getElementPath(dom, g) = getElementPath(dom, f))
           => Position(NewlyIndexed, g) <= Position(NewlyIndexed, f)

C17_LastIndexedWins ==
    [][ event'.type = "afterUpdate"
        => \A f \in El :
               LastNewAt(f)
               => /\ sourceMapByPath'[getElementPath(dom, f)]
                     = [file |-> dom[f].file, loc |-> dom[f].loc,
                        tagName |-> dom[f].tagName]
                  /\ \A n \in El :
                         FallsBackAt(n, f)
                         => ResolvedAfter(n)
                            = Found(n, dom[f].file, dom[f].loc) ]_vars

\* C17 witness: two indexed elements with different sources stand at one
\* path with one tag name, and a third, unindexed and attribute-less,
\* resolves through the path entry to the source of one of them
C17_Witness ==
    /\ event.type = "afterUpdate"
    /\ \E e \in InDoc, f \in InDoc, n \in InDoc :
           /\ Collide(e, f) /\ Collide(f, n)
           /\ Indexed(e) /\ Indexed(f) /\ ~Indexed(n) /\ ~HasAttr(n)
           /\ sourceMapCache[e] # sourceMapCache[f]
           /\ Resolve(n) = Found(n, sourceMapCache[f].file, sourceMapCache[f].loc)

\* ========================================================================
\* Resolution through the live attribute (SpecStrip)
\* ========================================================================
\* the pointer has just moved over n with the modifier held, so the resolver
\* ran on n, and n, not in the identity index, was resolved by its attribute
ResolvedLive(n) ==
    /\ event.type = "mousemove" /\ event.target = n
    /\ isModifierHeld
    /\ HasAttr(n) /\ ~Indexed(n)
    /\ highlightedElement = n

\* the next step strips the attribute of n in place
Stripped(n) ==
    /\ InDocument(dom', n)
    /\ dom'[n].file = NULL
    /\ sourceMapByPath' = sourceMapByPath

\* C18 (as claimed): a node that was resolved through its live attribute
\* resolves to the same file and location after the attribute is stripped.
C18_LiveResolutionIndexes ==
    [][ \A n \in El :
            (ResolvedLive(n) /\ Stripped(n))
            => ResolvedAfter(n) = Resolve(n) ]_vars

\* C18 (amended): resolving a node through its live attribute writes to
\* neither index.  Once the attribute is stripped the node is still not in
\* the identity index, and it resolves as an unannotated node does: to the
\* path entry when one with its tag name is stored at its path, and
\* otherwise as its parent resolves.
C18_LiveResolutionReadsOnly ==
    [][ /\ event'.type = "mousemove"
           => /\ sourceMapByPath' = sourceMapByPath
              /\ \A n \in DOMAIN sourceMapCache' :
                     n \in DOMAIN sourceMapCache
                     /\ sourceMapCache'[n] = sourceMapCache[n]
        /\ \A n \in El :
               (ResolvedLive(n) /\ Stripped(n))
               => /\ n \notin DOMAIN sourceMapCache'
                  /\ ResolvedAfter(n) =
                        IF PathHit(dom', sourceMapByPath', n)
                        THEN Found(n,
                                   sourceMapByPath'[getElementPath(dom', n)].file,
                                   sourceMapByPath'[getElementPath(dom', n)].loc)
                        ELSE findSourceElement(dom', sourceMapCache',
                                               sourceMapByPath', dom'[n].parent)
       ]_vars

\* C18 witness: the element under the pointer is highlighted, held by the
\* closure, carries no attribute and is not indexed, and resolves to nothing
C18_Witness ==
    \E n \in InDoc :
        /\ highlightedElement = n
        /\ lastMouseTarget = n
        /\ isModifierHeld
        /\ ~HasAttr(n) /\ ~Indexed(n)
        /\ tooltip.visible /\ tooltip.file # <<>>
        /\ ~Resolve(n).found

\* ========================================================================
\* Missing source metadata (SpecClick)
\* ========================================================================
\* n has an identity entry, a live attribute, or a path entry of its tag name
Resolvable(n) ==
    \/ Indexed(n)
    \/ HasAttr(n)
    \/ PathHit(dom, sourceMapByPath, n)

\* no node from n up to, and excluding, the document root is resolvable
RECURSIVE NoMetadataFrom(_)
NoMetadataFrom(n) ==
    \/ n = NoNode
    \/ n = DocumentElement
    \/ ~Resolvable(n) /\ NoMetadataFrom(dom[n].parent)

\* C19: a target with no source metadata on its chain resolves to "not
\* found", which no found result equals, whatever its location; a modifier
\* click on such a target runs the resolver in every click handler,
\* dispatches nothing and leaves the default action and propagation alone.
C19_MissingMetadataIsNoError ==
    /\ \A n \in Targets :
           NoMetadataFrom(n)
           => /\ Resolve(n) = NotFound
              /\ ~Resolve(n).found
    /\ \A n \in Targets :
           Resolve(n).found => Resolve(n) # NotFound
    /\ (ModifierClick /\ NoMetadataFrom(event.target))
       => /\ event.resolved = event.handlers
          /\ event.handlers >= 1
          /\ event.dispatched = <<>>
          /\ ~event.defaultPrevented
          /\ ~event.propagationStopped

\* C19 witness: a modifier click on an element of the document that has no
\* source metadata on its chain, while another element of the page resolves
\* to a file with no location
C19_Witness ==
    /\ ModifierClick
    /\ event.target \in InDoc
    /\ NoMetadataFrom(event.target)
    /\ event.resolved >= 1
    /\ \E m \in InDoc : Resolve(m).found /\ Resolve(m).loc = NULL

\* ========================================================================
\* Highlight consistency (SpecHighlight)
\* ========================================================================
\* C20: with showHighlight enabled, in every reachable state at most one
\* element carries the highlight class and it is highlightedElement; an
\* element is highlighted, and the tooltip visible, only while the modifier
\* is tracked as held; and the body carries the active class exactly when
\* the modifier is tracked as held.
C20_HighlightConsistency ==
    /\ config.showHighlight
    /\ Cardinality(Highlighted) <= 1
    /\ Highlighted \subseteq {highlightedElement}
    /\ highlightedElement # NoNode => Highlighted = {highlightedElement}
    /\ highlightedElement # NoNode => isModifierHeld
    /\ tooltip.visible => isModifierHeld
    /\ HasClass(Body, ActiveClass) <=> isModifierHeld

\* C20 witness: after a re-initialisation, on a page of two elements, the
\* modifier is held, one element is highlighted with the tooltip shown and
\* the body marked active, and a modifier click has just been handled
C20_Witness ==
    /\ inits = MaxInits
    /\ Cardinality(InDoc) = MaxPageEl
    /\ isModifierHeld
    /\ highlightedElement \in InDoc
    /\ Highlighted = {highlightedElement}
    /\ tooltip.visible
    /\ HasClass(Body, ActiveClass)
    /\ event.type = "click" /\ event.dispatched # <<>>

\* ========================================================================
\* Frame of the two indexes (SpecFrame)
\* ========================================================================
\* the step runs cacheSourceMappings: a script run or an update notification
SnapshotStep == inits' # inits \/ event'.type = "afterUpdate"

\* n still exists after the step: it has not been garbage-collected
Survives(n) == dom'[n] # GoneNode

\* C21: the identity-index entry of an element that still exists is never
\* changed or removed, by a snapshot, a resolution, an input handler, a
\* teardown or a script re-initialisation; no step removes a path entry;
\* and a step that is not a snapshot adds nothing to the identity index and
\* leaves the structural-path index as it was.
C21_IndexesWriteOnce ==
    [][ /\ \A n \in DOMAIN sourceMapCache :
               Survives(n)
               => /\ n \in DOMAIN sourceMapCache'
                  /\ sourceMapCache'[n] = sourceMapCache[n]
        /\ DOMAIN sourceMapByPath \subseteq DOMAIN sourceMapByPath'
        /\ ~SnapshotStep
           => /\ sourceMapByPath' = sourceMapByPath
              /\ DOMAIN sourceMapCache' \subseteq DOMAIN sourceMapCache
       ]_vars

\* C21 witness: after a re-initialisation that tore the previous instance
\* down, an indexed element whose attributes were since rewritten still has
\* its first entry, and the path index is not empty
C21_Witness ==
    /\ inits = MaxInits
    /\ sourceMapByPath # <<>>
    /\ \E n \in InDoc :
           /\ Indexed(n)
           /\ sourceMapCache[n].file # dom[n].file
           /\ highlightedElement = n

\* ========================================================================
\* Structural paths and the script's own classes (SpecPath)
\* ========================================================================
\* C22: the structural path of an element that stays in the document is the
\* same before and after every step, whether the step highlights it or an
\* ancestor, removes a highlight, or adds or removes the active class of
\* body.
C22_PathIndependentOfOwnClasses ==
    [][ \A n \in El :
            (InDocument(dom, n) /\ InDocument(dom', n))
            => getElementPath(dom', n) = getElementPath(dom, n) ]_vars

====
